---- MODULE Spec2Model ----
\* A model of the zero-copy message decoder of DistributedEngine/Protocol:
\* the validating decoder `message` (include/engine/protocol/message.hpp), the
\* validating data layer `message_data` behind the delegating `message` wrapper,
\* and the unchecked decoder `request` (include/engine/protocol/request.hpp).
\* A caller owns one byte buffer, constructs a view over it with one of the three
\* classes, calls accessors on the view and discards it; or shares the view
\* with several reader threads that call its accessors concurrently.
EXTENDS Integers, Sequences, FiniteSets, TLC

VARIABLES
    buf,     \* the caller's buffer: [addr, len, bytes], a span of len bytes at
             \* the front of the array bytes
    checks,  \* build configuration: TRUE iff BOOST_CONTRACT_NO_CHECKS is not defined
    pc,      \* "idle" | "view" | "failed" | "fault" | "undefined" (a store
             \* outside the offset table ran: nothing further is determined)
    call,    \* the constructor call made last: [variant, precompute]
    view,    \* the constructed object's fields: [buffer_size, count, offsets];
             \* offsets is param_offsets_
    err,     \* the exception that ended the last construction, or NoErr
    partial, \* the offset table of the object a failed construction abandoned
    reads,   \* the buffer offsets read by the operation the caller saw last:
             \* the accessor call behind ret, else the constructor
    undef,   \* whether undefined behaviour ran: [ctor, last] for the constructor
             \* of the live view and for the last accessor call
    ret,     \* the result of the last accessor call
    again,   \* whether the live outcome is that of a repeated decoding
    readers  \* the threads that share the live view: for each its accessor call
             \* in progress, [stage, op, index, seen, res, overlapped]

vars ==
    <<buf, checks, pc, call, view, err, partial, reads, undef, ret, again, readers>>

----------------------------------------------------------------------------
\* Layout constants of the three classes (identical in all of them).

offset_uuid == 0
offset_action == 16
offset_param_count == 20
offset_params == 24
max_params == 8
\* sizeof(std::uint32_t)
SizeofU32 == 4
\* length of the identifier span returned by get_id
IdLen == 16

----------------------------------------------------------------------------
\* Bounds of the explored inputs.

\* buffer start addresses 0..MaxAddr (0 is 4-byte aligned, 1 is odd)
MaxAddr == 1
\* parameter sizes 0..MaxSize are combined freely in the first three size slots
MaxSize == 1
\* trailing bytes after the last payload: 0..MaxExtra
MaxExtra == 1
\* accessor indices 0..MaxIndex (max_params and above included)
MaxIndex == 8
\* buffers longer than MaxLen are not generated
MaxLen == 64

\* values of the parameter_count field that are explored
Counts == {0, 1, 2, 3, 8, 9}
\* values of the field above 255, explored with one size tuple
BigCounts == {257}
\* number of size slots laid out in a generated buffer, at most
MaxSlots == 9
Variants == {"message", "message_data", "request"}

----------------------------------------------------------------------------
\* Reading the buffer. Offsets are 0-based; bytes is a sequence, so offset p is
\* bytes[p + 1]. The span given to the decoder is the first len bytes; bytes
\* goes on with the rest of the array the span lies in. A read past the end of
\* the span is undefined behaviour. Inside the array it returns what the array
\* holds there; behind the array the value is indeterminate: it is whatever the
\* memory holds in that run, and the model says nothing about it but that it
\* is not known.

\* the value of a byte or of a 16-bit word the program does not determine
Indeterminate == -1

Byte(b, p) == IF p < Len(b.bytes) THEN b.bytes[p + 1] ELSE Indeterminate

\* *reinterpret_cast<const std::uint16_t *>(buffer + p) on a little-endian host
U16(b, p) ==
    IF Byte(b, p) = Indeterminate \/ Byte(b, p + 1) = Indeterminate
    THEN Indeterminate
    ELSE Byte(b, p) + 256 * Byte(b, p + 1)

\* std::uint32_t and std::size_t values are kept exactly as [top, hi, lo] with
\* value = top * 2^48 + hi * 2^24 + lo, hi < 2^24 and lo < 2^24 (TLC's own
\* integers have 31 bits). std::size_t has 64 bits, so top < 2^16 and a sum
\* wraps modulo 2^64.
WideBase == 256 * 256 * 256
WideTop == 256 * 256

\* the 32- or 64-bit value the program does not determine; whatever is
\* computed from it is indeterminate too
WIndeterminate == [top |-> Indeterminate, hi |-> Indeterminate, lo |-> Indeterminate]

W(n) ==
    IF n = Indeterminate THEN WIndeterminate
    ELSE [top |-> 0, hi |-> n \div WideBase, lo |-> n % WideBase]
WAdd(x, y) ==
    IF x = WIndeterminate \/ y = WIndeterminate THEN WIndeterminate
    ELSE LET l == x.lo + y.lo
             h == x.hi + y.hi + (l \div WideBase)
         IN  [top |-> (x.top + y.top + (h \div WideBase)) % WideTop,
              hi |-> h % WideBase,
              lo |-> l % WideBase]
\* x <= y, for values the program determines
WLe(x, y) ==
    \/ x.top < y.top
    \/ x.top = y.top /\ x.hi < y.hi
    \/ x.top = y.top /\ x.hi = y.hi /\ x.lo <= y.lo

\* *reinterpret_cast<const std::uint32_t *>(buffer + p) on a little-endian host
U32(b, p) ==
    IF \E k \in 0 .. 3 : Byte(b, p + k) = Indeterminate
    THEN WIndeterminate
    ELSE [top |-> 0,
          hi |-> Byte(b, p + 3),
          lo |-> Byte(b, p) + 256 * Byte(b, p + 1) + 65536 * Byte(b, p + 2)]

\* cached_param_sizes_[i], with cached_param_sizes_ = buffer_ + offset_params_
ParamSize(b, i) == U32(b, offset_params + i * SizeofU32)

\* the buffer offsets a read of w bytes at offset p touches
Span(p, w) == p .. (p + w - 1)

\* a w-byte read at offset p is undefined: past the end, or misaligned for w
ReadUB(b, p, w) == (p + w > b.len) \/ ((b.addr + p) % w # 0)

----------------------------------------------------------------------------
\* Exceptions. alignment_error is the typed exception of message.hpp; every
\* BOOST_CONTRACT_ASSERT throws boost::contract::assertion_failure, whose text
\* names the asserted condition (check) ; index is the loop index of a failing
\* per-parameter assertion.

NoErr == [type |-> "none", check |-> "none", index |-> -1]
Failure(t, c, i) == [type |-> t, check |-> c, index |-> i]

ZeroTable == [i \in 0 .. (max_params - 1) |-> W(0)]

\* the table in storage no initialiser has run on
RawTable == [i \in 0 .. (max_params - 1) |-> WIndeterminate]

\* param_offsets_[index]. std::array's operator[] has no bounds check: at an
\* index >= max_params the word read lies behind the table, and its value is
\* indeterminate.
TableRead(offsets, index) ==
    IF index < max_params THEN offsets[index] ELSE WIndeterminate

NoView == [buffer_size |-> 0, count |-> 0, offsets |-> ZeroTable]
\* no buffer the model can speak about
NoBuffer == [addr |-> 0, len |-> 0, bytes |-> <<>>]
NoCall == [variant |-> "none", precompute |-> FALSE]
NoUB == [ctor |-> FALSE, last |-> FALSE]
NoRet == [op |-> "none", index |-> -1, kind |-> "none", check |-> "none",
          start |-> W(0), len |-> W(0), value |-> W(0)]

\* the threads that read one view concurrently
Readers == {"r1", "r2"}
\* a reader that has made no call: seen is what it has loaded of the view's
\* fields, res what its last call returned, overlapped whether another
\* reader's call was in progress during that call
IdleReader ==
    [stage |-> "idle", op |-> "none", index |-> -1, seen |-> NoView,
     res |-> NoRet, overlapped |-> FALSE]
NoReaders == [reader \in Readers |-> IdleReader]

----------------------------------------------------------------------------
\* Construction.

\* Faulty variants of the precondition functor, each one slip away from the
\* source; the properties below must tell each of them from the real one.
\* The count bound is off by one (<= max_params + 1).
MessagePrecondition_CountOffByOne(b) ==
    IF b.addr % 4 # 0
    THEN [err |-> Failure("alignment_error", "alignment", -1), reads |-> {}]
    ELSE IF ~(b.len >= offset_params)
    THEN [err |-> Failure("assertion_failure", "header", -1), reads |-> {}]
    ELSE LET _count == U16(b, offset_param_count)
             rd == Span(offset_param_count, 2)
         IN  IF ~(_count <= max_params + 1)
             THEN [err |-> Failure("assertion_failure", "count", -1), reads |-> rd]
             ELSE IF ~(b.len >= offset_params + _count * SizeofU32)
             THEN [err |-> Failure("assertion_failure", "sizes", -1), reads |-> rd]
             ELSE [err |-> NoErr, reads |-> rd]

\* The length is checked before the alignment.
MessagePrecondition_LengthFirst(b) ==
    IF ~(b.len >= offset_params)
    THEN [err |-> Failure("assertion_failure", "header", -1), reads |-> {}]
    ELSE IF b.addr % 4 # 0
    THEN [err |-> Failure("alignment_error", "alignment", -1), reads |-> {}]
    ELSE LET _count == U16(b, offset_param_count)
             rd == Span(offset_param_count, 2)
         IN  IF ~(_count <= max_params)
             THEN [err |-> Failure("assertion_failure", "count", -1), reads |-> rd]
             ELSE IF ~(b.len >= offset_params + _count * SizeofU32)
             THEN [err |-> Failure("assertion_failure", "sizes", -1), reads |-> rd]
             ELSE [err |-> NoErr, reads |-> rd]

\* The minimum length is off by one (>= offset_params - 1).
MessagePrecondition_ShortHeader(b) ==
    IF b.addr % 4 # 0
    THEN [err |-> Failure("alignment_error", "alignment", -1), reads |-> {}]
    ELSE IF ~(b.len >= offset_params - 1)
    THEN [err |-> Failure("assertion_failure", "header", -1), reads |-> {}]
    ELSE LET _count == U16(b, offset_param_count)
             rd == Span(offset_param_count, 2)
         IN  IF ~(_count <= max_params)
             THEN [err |-> Failure("assertion_failure", "count", -1), reads |-> rd]
             ELSE IF ~(b.len >= offset_params + _count * SizeofU32)
             THEN [err |-> Failure("assertion_failure", "sizes", -1), reads |-> rd]
             ELSE [err |-> NoErr, reads |-> rd]

\* The assertion on the count is missing.
MessagePrecondition_NoCountCheck(b) ==
    IF b.addr % 4 # 0
    THEN [err |-> Failure("alignment_error", "alignment", -1), reads |-> {}]
    ELSE IF ~(b.len >= offset_params)
    THEN [err |-> Failure("assertion_failure", "header", -1), reads |-> {}]
    ELSE LET _count == U16(b, offset_param_count)
             rd == Span(offset_param_count, 2)
         IN  IF ~(b.len >= offset_params + _count * SizeofU32)
             THEN [err |-> Failure("assertion_failure", "sizes", -1), reads |-> rd]
             ELSE [err |-> NoErr, reads |-> rd]

\* message::message, the precondition functor (message.hpp:78-86): the checks in
\* source order; the count is read only after the two checks before it passed.
MessagePrecondition(b) ==
    IF b.addr % 4 # 0
    THEN [err |-> Failure("alignment_error", "alignment", -1), reads |-> {}]
    ELSE IF ~(b.len >= offset_params)
    THEN [err |-> Failure("assertion_failure", "header", -1), reads |-> {}]
    ELSE LET _count == U16(b, offset_param_count)
             rd == Span(offset_param_count, 2)
         IN  IF ~(_count <= max_params)
             THEN [err |-> Failure("assertion_failure", "count", -1), reads |-> rd]
             ELSE IF ~(b.len >= offset_params + _count * SizeofU32)
             THEN [err |-> Failure("assertion_failure", "sizes", -1), reads |-> rd]
             ELSE [err |-> NoErr, reads |-> rd]

\* message_data::message_data, the constructor_precondition functor, compiled
\* only when BOOST_CONTRACT_NO_CHECKS is not defined: every check is a
\* BOOST_CONTRACT_ASSERT, and the size-array check precedes the count check.
MessageDataPrecondition(b, chk) ==
    IF ~chk
    THEN [err |-> NoErr, reads |-> {}]
    ELSE IF ~(b.addr % 4 = 0)
    THEN [err |-> Failure("assertion_failure", "alignment", -1), reads |-> {}]
    ELSE IF ~(b.len >= offset_params)
    THEN [err |-> Failure("assertion_failure", "header", -1), reads |-> {}]
    ELSE LET count == U16(b, offset_param_count)
             rd == Span(offset_param_count, 2)
         IN  IF ~(b.len >= offset_params + count * SizeofU32)
             THEN [err |-> Failure("assertion_failure", "sizes", -1), reads |-> rd]
             ELSE IF ~(count <= max_params)
             THEN [err |-> Failure("assertion_failure", "count", -1), reads |-> rd]
             ELSE [err |-> NoErr, reads |-> rd]

\* A faulty variant of the loop body: the assertion leaves the size out
\* (offset <= buffer_size).
WalkStep_NoSizeInCheck(b, asserted, i, st) ==
    LET slot == offset_params + i * SizeofU32
        size == ParamSize(b, i)
        rd == st.reads \cup Span(slot, SizeofU32)
        rub == st.ub \/ ReadUB(b, slot, SizeofU32)
    IN  IF asserted /\ ~WLe(st.offset, W(b.len))
        THEN [err |-> Failure("assertion_failure", "param", i), wild |-> FALSE,
              offset |-> st.offset, offsets |-> st.offsets, reads |-> rd, ub |-> rub]
        ELSE IF ~(i < max_params)
        THEN [err |-> NoErr, wild |-> TRUE,
              offset |-> st.offset, offsets |-> st.offsets,
              reads |-> IF asserted THEN rd ELSE st.reads,
              ub |-> IF asserted THEN rub ELSE st.ub]
        ELSE [err |-> NoErr, wild |-> FALSE,
              offset |-> WAdd(st.offset, size),
              offsets |-> [st.offsets EXCEPT ![i] = st.offset],
              reads |-> rd, ub |-> rub]

\* A faulty variant of the loop body: a payload that does not fit is passed
\* over without an exception, and the object is handed out with the offsets
\* of the others.
WalkStep_SkipsSilently(b, asserted, i, st) ==
    LET slot == offset_params + i * SizeofU32
        size == ParamSize(b, i)
        rd == st.reads \cup Span(slot, SizeofU32)
        rub == st.ub \/ ReadUB(b, slot, SizeofU32)
    IN  IF asserted /\ ~WLe(WAdd(st.offset, size), W(b.len))
        THEN [err |-> NoErr, wild |-> FALSE,
              offset |-> st.offset, offsets |-> st.offsets, reads |-> rd, ub |-> rub]
        ELSE IF ~(i < max_params)
        THEN [err |-> NoErr, wild |-> TRUE,
              offset |-> st.offset, offsets |-> st.offsets,
              reads |-> IF asserted THEN rd ELSE st.reads,
              ub |-> IF asserted THEN rub ELSE st.ub]
        ELSE [err |-> NoErr, wild |-> FALSE,
              offset |-> WAdd(st.offset, size),
              offsets |-> [st.offsets EXCEPT ![i] = st.offset],
              reads |-> rd, ub |-> rub]

\* One iteration of the precomputation loop, at index i. st is the state of
\* the loop: the running offset, the offset table, the buffer offsets read and
\* whether a read was undefined (err and wild say how an iteration ended).
\* With asserted (message.hpp:94, setup_env.sh:235) the bounds assertion loads
\* the size before the store; without it (request.hpp:36-37) the store comes
\* first. Nothing bounds i but the count: at an index >= max_params the store
\* param_offsets_[i] = offset is outside the std::array. What it overwrites is
\* not determined by the program (the caller's buffer, the loop's own
\* variables, or nothing), so the result is wild: the iteration names no
\* outcome.
WalkStep(b, asserted, i, st) ==
    LET slot == offset_params + i * SizeofU32
        size == ParamSize(b, i)
        rd == st.reads \cup Span(slot, SizeofU32)
        rub == st.ub \/ ReadUB(b, slot, SizeofU32)
    IN  IF asserted /\ ~WLe(WAdd(st.offset, size), W(b.len))
        THEN [err |-> Failure("assertion_failure", "param", i), wild |-> FALSE,
              offset |-> st.offset, offsets |-> st.offsets, reads |-> rd, ub |-> rub]
        ELSE IF ~(i < max_params)
        THEN [err |-> NoErr, wild |-> TRUE,
              offset |-> st.offset, offsets |-> st.offsets,
              reads |-> IF asserted THEN rd ELSE st.reads,
              ub |-> IF asserted THEN rub ELSE st.ub]
        ELSE [err |-> NoErr, wild |-> FALSE,
              offset |-> WAdd(st.offset, size),
              offsets |-> [st.offsets EXCEPT ![i] = st.offset],
              reads |-> rd, ub |-> rub]

\* The precomputation loop, from index i on: for (i; i < count; ++i). An
\* exception ends it, and so does, for the model, a store outside the table:
\* what the later iterations read and write is no longer determined.
RECURSIVE Walk(_, _, _, _, _)
Walk(b, count, asserted, i, st) ==
    IF ~(i < count) THEN st
    ELSE LET s == WalkStep(b, asserted, i, st)
         IN  IF s.err # NoErr \/ s.wild THEN s
             ELSE Walk(b, count, asserted, i + 1, s)

\* A faulty variant of the body: the running offset starts at the size array
\* (offset_params) instead of after it.
Body_OffsetsFromSizeArray(b, precompute, asserted) ==
    LET count == U16(b, offset_param_count)
        rd0 == Span(offset_param_count, 2)
        ub0 == ReadUB(b, offset_param_count, 2)
        w == IF ~precompute
             THEN [err |-> NoErr, wild |-> FALSE, offsets |-> ZeroTable,
                   reads |-> rd0, ub |-> ub0]
             ELSE IF count = Indeterminate
             THEN [err |-> NoErr, wild |-> TRUE, offsets |-> ZeroTable,
                   reads |-> rd0, ub |-> ub0]
             ELSE Walk(b, count, asserted, 0,
                       [err |-> NoErr, wild |-> FALSE,
                        offset |-> W(offset_params),
                        offsets |-> ZeroTable, reads |-> rd0, ub |-> ub0])
    IN  [err |-> w.err, count |-> count, offsets |-> w.offsets,
         reads |-> w.reads, ub |-> w.ub, wild |-> w.wild]

\* A faulty variant of the body: the offset table is not value-initialised
\* (param_offsets_ without {}), so every slot the loop does not write holds
\* whatever the memory held.
Body_UninitialisedTable(b, precompute, asserted) ==
    LET count == U16(b, offset_param_count)
        rd0 == Span(offset_param_count, 2)
        ub0 == ReadUB(b, offset_param_count, 2)
        w == IF ~precompute
             THEN [err |-> NoErr, wild |-> FALSE, offsets |-> RawTable,
                   reads |-> rd0, ub |-> ub0]
             ELSE IF count = Indeterminate
             THEN [err |-> NoErr, wild |-> TRUE, offsets |-> RawTable,
                   reads |-> rd0, ub |-> ub0]
             ELSE Walk(b, count, asserted, 0,
                       [err |-> NoErr, wild |-> FALSE,
                        offset |-> W(offset_params + count * SizeofU32),
                        offsets |-> RawTable, reads |-> rd0, ub |-> ub0])
    IN  [err |-> w.err, count |-> count, offsets |-> w.offsets,
         reads |-> w.reads, ub |-> w.ub, wild |-> w.wild]

\* A faulty variant of the body: the count is read two bytes too far, from
\* the padding at offset 22.
Body_CountFromPadding(b, precompute, asserted) ==
    LET count == U16(b, offset_param_count + 2)
        rd0 == Span(offset_param_count + 2, 2)
        ub0 == ReadUB(b, offset_param_count + 2, 2)
        w == IF ~precompute
             THEN [err |-> NoErr, wild |-> FALSE, offsets |-> ZeroTable,
                   reads |-> rd0, ub |-> ub0]
             ELSE IF count = Indeterminate
             THEN [err |-> NoErr, wild |-> TRUE, offsets |-> ZeroTable,
                   reads |-> rd0, ub |-> ub0]
             ELSE Walk(b, count, asserted, 0,
                       [err |-> NoErr, wild |-> FALSE,
                        offset |-> W(offset_params + count * SizeofU32),
                        offsets |-> ZeroTable, reads |-> rd0, ub |-> ub0])
    IN  [err |-> w.err, count |-> count, offsets |-> w.offsets,
         reads |-> w.reads, ub |-> w.ub, wild |-> w.wild]

\* A faulty variant of the body: the offsets are kept relative to the start
\* of the payload, so the running offset starts at 0.
Body_RelativeOffsets(b, precompute, asserted) ==
    LET count == U16(b, offset_param_count)
        rd0 == Span(offset_param_count, 2)
        ub0 == ReadUB(b, offset_param_count, 2)
        w == IF ~precompute
             THEN [err |-> NoErr, wild |-> FALSE, offsets |-> ZeroTable,
                   reads |-> rd0, ub |-> ub0]
             ELSE IF count = Indeterminate
             THEN [err |-> NoErr, wild |-> TRUE, offsets |-> ZeroTable,
                   reads |-> rd0, ub |-> ub0]
             ELSE Walk(b, count, asserted, 0,
                       [err |-> NoErr, wild |-> FALSE,
                        offset |-> W(0),
                        offsets |-> ZeroTable, reads |-> rd0, ub |-> ub0])
    IN  [err |-> w.err, count |-> count, offsets |-> w.offsets,
         reads |-> w.reads, ub |-> w.ub, wild |-> w.wild]

\* A faulty variant of the body: the payloads must end exactly at the end of
\* the buffer (trailing bytes are rejected).
Body_RejectsTrailing(b, precompute, asserted) ==
    LET count == U16(b, offset_param_count)
        rd0 == Span(offset_param_count, 2)
        ub0 == ReadUB(b, offset_param_count, 2)
        w == IF ~precompute
             THEN [err |-> NoErr, wild |-> FALSE, offsets |-> ZeroTable,
                   reads |-> rd0, ub |-> ub0]
             ELSE IF count = Indeterminate
             THEN [err |-> NoErr, wild |-> TRUE, offsets |-> ZeroTable,
                   reads |-> rd0, ub |-> ub0]
             ELSE Walk(b, count, asserted, 0,
                       [err |-> NoErr, wild |-> FALSE,
                        offset |-> W(offset_params + count * SizeofU32),
                        offsets |-> ZeroTable, reads |-> rd0, ub |-> ub0])
        end == IF count = 0 THEN W(offset_params)
               ELSE WAdd(w.offsets[count - 1], ParamSize(b, count - 1))
    IN  IF precompute /\ asserted /\ w.err = NoErr /\ ~w.wild /\ end # W(b.len)
        THEN [err |-> Failure("assertion_failure", "param", count), count |-> count,
              offsets |-> w.offsets, reads |-> w.reads, ub |-> w.ub,
              wild |-> FALSE]
        ELSE [err |-> w.err, count |-> count, offsets |-> w.offsets,
              reads |-> w.reads, ub |-> w.ub, wild |-> w.wild]

\* The constructor body shared by the three classes (message.hpp:88-98,
\* message_data, request.hpp:30-39): cache the count, point at the size array,
\* and walk the sizes when precompute is set. A count read behind the array is
\* indeterminate; a loop bounded by it may store anywhere.
Body(b, precompute, asserted) ==
    LET count == U16(b, offset_param_count)
        rd0 == Span(offset_param_count, 2)
        ub0 == ReadUB(b, offset_param_count, 2)
        w == IF ~precompute
             THEN [err |-> NoErr, wild |-> FALSE, offsets |-> ZeroTable,
                   reads |-> rd0, ub |-> ub0]
             ELSE IF count = Indeterminate
             THEN [err |-> NoErr, wild |-> TRUE, offsets |-> ZeroTable,
                   reads |-> rd0, ub |-> ub0]
             ELSE Walk(b, count, asserted, 0,
                       [err |-> NoErr, wild |-> FALSE,
                        offset |-> W(offset_params + count * SizeofU32),
                        offsets |-> ZeroTable, reads |-> rd0, ub |-> ub0])
    IN  [err |-> w.err, count |-> count, offsets |-> w.offsets,
         reads |-> w.reads, ub |-> w.ub, wild |-> w.wild]

\* A constructor the precondition has thrown out of; table is what the
\* abandoned storage holds in the place of the offset table.
Rejected(pre, table) ==
    [err |-> pre.err, count |-> 0, offsets |-> table, reads |-> pre.reads,
     ub |-> FALSE, wild |-> FALSE]

\* message::message(buffer, precompute) of message.hpp. The precondition runs
\* in the body, after the member initialisers: param_offsets_{} is all zero
\* when it throws.
MessageCtor(b, precompute) ==
    LET pre == MessagePrecondition(b)
    IN  IF pre.err # NoErr THEN Rejected(pre, ZeroTable)
        ELSE Body(b, precompute, TRUE)

\* message_data::message_data(buffer_span, precompute); the wrapper
\* message(buffer, precompute) : data_(buffer, precompute) only forwards to it.
\* The precondition is the base class constructor_precondition<message_data>,
\* which runs before any member initialiser: when it throws, param_offsets{}
\* has not been initialised.
MessageDataCtor(b, precompute, chk) ==
    LET pre == MessageDataPrecondition(b, chk)
    IN  IF pre.err # NoErr THEN Rejected(pre, RawTable)
        ELSE Body(b, precompute, chk)

\* request::request(buffer, precompute): no validation at all
RequestCtor(b, precompute) == Body(b, precompute, FALSE)

Ctor(variant, b, precompute, chk) ==
    CASE variant = "message" -> MessageCtor(b, precompute)
      [] variant = "message_data" -> MessageDataCtor(b, precompute, chk)
      [] variant = "request" -> RequestCtor(b, precompute)

\* Whether an operation may fault. Without an undefined read it cannot; a
\* read past the span or a misaligned read either delivers a value (that of the
\* array, or an indeterminate one) or faults.
Outcomes(ub) == IF ub THEN BOOLEAN ELSE {FALSE}

\* One constructor call on the caller's buffer. An exception leaves no object;
\* an undefined read either faults or continues with what was read; after a
\* store outside the offset table the execution is undefined: nothing is known
\* about the object, about the buffer or about what the program does next.
Construct(variant, precompute) ==
    /\ pc = "idle"
    /\ LET r == Ctor(variant, buf, precompute, checks)
       IN  \E fault \in Outcomes(r.ub) :
            /\ call' = [variant |-> variant, precompute |-> precompute]
            /\ ret' = NoRet
            /\ again' = FALSE
            /\ undef' = [ctor |-> r.ub, last |-> FALSE]
            /\ IF r.err # NoErr
               THEN /\ pc' = "failed"
                    /\ err' = r.err
                    /\ view' = NoView
                    /\ partial' = r.offsets
                    /\ reads' = r.reads
                    /\ buf' = buf
               ELSE IF r.wild
               THEN /\ pc' = "undefined"
                    /\ err' = NoErr
                    /\ view' = NoView
                    /\ partial' = ZeroTable
                    /\ reads' = {}
                    /\ buf' = NoBuffer
               ELSE IF fault
               THEN /\ pc' = "fault"
                    /\ err' = NoErr
                    /\ view' = NoView
                    /\ partial' = ZeroTable
                    /\ reads' = r.reads
                    /\ buf' = buf
               ELSE /\ pc' = "view"
                    /\ err' = NoErr
                    /\ partial' = ZeroTable
                    /\ view' = [buffer_size |-> buf.len, count |-> r.count,
                                offsets |-> r.offsets]
                    /\ reads' = r.reads
                    /\ buf' = buf
    /\ UNCHANGED <<checks, readers>>

\* The caller drops the view (or the failed attempt); nothing is released.
Discard ==
    /\ pc \in {"view", "failed"}
    /\ pc' = "idle"
    /\ call' = NoCall
    /\ view' = NoView
    /\ err' = NoErr
    /\ partial' = ZeroTable
    /\ reads' = {}
    /\ undef' = NoUB
    /\ ret' = NoRet
    /\ again' = FALSE
    /\ UNCHANGED <<buf, checks, readers>>

\* The caller decodes the same buffer again, with the same class and flag,
\* while the outcome of the earlier decoding is still at hand; what the last
\* accessor call returned stays with the caller.
Redecode ==
    /\ pc \in {"view", "failed"}
    /\ LET r == Ctor(call.variant, buf, call.precompute, checks)
       IN  \E fault \in Outcomes(r.ub) :
            /\ again' = TRUE
            /\ undef' = [undef EXCEPT !.ctor = r.ub]
            /\ IF r.err # NoErr
               THEN /\ pc' = "failed"
                    /\ err' = r.err
                    /\ view' = NoView
                    /\ partial' = r.offsets
                    /\ ret' = NoRet
                    /\ reads' = r.reads
                    /\ buf' = buf
               ELSE IF r.wild
               THEN /\ pc' = "undefined"
                    /\ err' = NoErr
                    /\ view' = NoView
                    /\ partial' = ZeroTable
                    /\ ret' = NoRet
                    /\ reads' = {}
                    /\ buf' = NoBuffer
               ELSE IF fault
               THEN /\ pc' = "fault"
                    /\ err' = NoErr
                    /\ view' = NoView
                    /\ partial' = ZeroTable
                    /\ ret' = NoRet
                    /\ reads' = r.reads
                    /\ buf' = buf
               ELSE /\ pc' = "view"
                    /\ err' = NoErr
                    /\ partial' = ZeroTable
                    /\ view' = [buffer_size |-> buf.len, count |-> r.count,
                                offsets |-> r.offsets]
                    /\ ret' = ret
                    /\ reads' = IF ret = NoRet THEN r.reads ELSE reads
                    /\ buf' = buf
    /\ UNCHANGED <<checks, call, readers>>

----------------
\* Accessors. A failed precondition is a contract violation: the failure
\* handler throws or terminates, and no value is returned.

Violation(op, index, c, rd) ==
    [res |-> [op |-> op, index |-> index, kind |-> "violation", check |-> c,
              start |-> W(0), len |-> W(0), value |-> W(0)],
     reads |-> rd, ub |-> FALSE]

Returned(op, index, kind, start, len, value, rd, ub) ==
    [res |-> [op |-> op, index |-> index, kind |-> kind, check |-> "none",
              start |-> start, len |-> len, value |-> value],
     reads |-> rd, ub |-> ub]

\* Faulty variants of message::get_param. No assertion at all:
MessageGetParam_Unasserted(b, v, index) ==
    LET slot == offset_params + index * SizeofU32
        off == TableRead(v.offsets, index)
    IN  Returned("get_param", index, "range", off, ParamSize(b, index), W(0),
                 Span(slot, SizeofU32), FALSE)

\* The assertion on the offset table entry is missing:
MessageGetParam_NoPrecomputeCheck(b, v, index) ==
    LET slot == offset_params + index * SizeofU32
    IN  IF ~(index < v.count)
        THEN Violation("get_param", index, "index", {})
        ELSE IF ~WLe(WAdd(TableRead(v.offsets, index), ParamSize(b, index)),
                     W(v.buffer_size))
        THEN Violation("get_param", index, "bounds", Span(slot, SizeofU32))
        ELSE Returned("get_param", index, "range", TableRead(v.offsets, index),
                      ParamSize(b, index), W(0), Span(slot, SizeofU32),
                      FALSE)

\* The assertion on the index is missing:
MessageGetParam_NoIndexCheck(b, v, index) ==
    LET slot == offset_params + index * SizeofU32
        off == TableRead(v.offsets, index)
    IN  IF ~(off # W(0))
        THEN Violation("get_param", index, "precompute", {})
        ELSE IF ~WLe(WAdd(off, ParamSize(b, index)), W(v.buffer_size))
        THEN Violation("get_param", index, "bounds", Span(slot, SizeofU32))
        ELSE Returned("get_param", index, "range", off,
                      ParamSize(b, index), W(0), Span(slot, SizeofU32),
                      FALSE)

\* message::get_param(index) of message.hpp: three assertions, then the span
\* {buffer_ + param_offsets_[index], cached_param_sizes_[index]}
MessageGetParam(b, v, index) ==
    LET slot == offset_params + index * SizeofU32
    IN  IF ~(index < v.count)
        THEN Violation("get_param", index, "index", {})
        ELSE IF ~(TableRead(v.offsets, index) # W(0))
        THEN Violation("get_param", index, "precompute", {})
        ELSE IF ~WLe(WAdd(TableRead(v.offsets, index), ParamSize(b, index)),
                     W(v.buffer_size))
        THEN Violation("get_param", index, "bounds", Span(slot, SizeofU32))
        ELSE Returned("get_param", index, "range", TableRead(v.offsets, index),
                      ParamSize(b, index), W(0), Span(slot, SizeofU32),
                      FALSE)

\* A faulty variant of request::get_param: the length is always taken from the
\* first size slot.
RequestGetParam_FirstSize(b, v, index) ==
    LET slot == offset_params
        off == TableRead(v.offsets, index)
    IN  Returned("get_param", index, "range", off, ParamSize(b, 0), W(0),
                 Span(slot, SizeofU32),
                 ~(index < max_params) \/ ReadUB(b, slot, SizeofU32))

\* request::get_param(index): the span, unchecked. An index >= max_params
\* reads past the offset table (undefined): an indeterminate word.
RequestGetParam(b, v, index) ==
    LET slot == offset_params + index * SizeofU32
        off == TableRead(v.offsets, index)
    IN  Returned("get_param", index, "range", off, ParamSize(b, index), W(0),
                 Span(slot, SizeofU32),
                 ~(index < max_params) \/ ReadUB(b, slot, SizeofU32))

\* message_data::get_parameter(index): the assertions of message::get_param
\* when contract checks are compiled in, the bare span otherwise
MessageDataGetParameter(b, v, chk, index) ==
    IF chk THEN MessageGetParam(b, v, index)
    ELSE RequestGetParam(b, v, index)

GetParamResult(variant, b, v, chk, index) ==
    CASE variant = "message" -> MessageGetParam(b, v, index)
      [] variant = "message_data" -> MessageDataGetParameter(b, v, chk, index)
      [] variant = "request" -> RequestGetParam(b, v, index)

\* whether the accessors of this class assert their preconditions
Asserting(variant, chk) ==
    variant = "message" \/ (variant = "message_data" /\ chk)

\* get_id(): the 16-byte span at offset_uuid; nothing is read
GetIdResult(variant, v, chk) ==
    IF Asserting(variant, chk) /\ ~(v.buffer_size >= offset_uuid + IdLen)
    THEN Violation("get_id", -1, "header", {})
    ELSE Returned("get_id", -1, "range", W(offset_uuid), W(IdLen), W(0), {}, FALSE)

\* A faulty variant of get_action: the value is read at offset_param_count.
GetActionResult_AtCount(variant, b, v, chk) ==
    IF Asserting(variant, chk) /\ ~(v.buffer_size >= offset_action + SizeofU32)
    THEN Violation("get_action", -1, "header", {})
    ELSE Returned("get_action", -1, "value", W(0), W(0),
                  U32(b, offset_param_count),
                  Span(offset_param_count, SizeofU32),
                  ReadUB(b, offset_param_count, SizeofU32))

\* get_action(): the 32-bit value at offset_action
GetActionResult(variant, b, v, chk) ==
    IF Asserting(variant, chk) /\ ~(v.buffer_size >= offset_action + SizeofU32)
    THEN Violation("get_action", -1, "header", {})
    ELSE Returned("get_action", -1, "value", W(0), W(0), U32(b, offset_action),
                  Span(offset_action, SizeofU32),
                  ReadUB(b, offset_action, SizeofU32))

\* get_param_count(): the cached count
GetParamCountResult(v) ==
    Returned("get_param_count", -1, "value", W(0), W(0), W(v.count), {}, FALSE)

\* get_param_sizes(): the pointer buffer + offset_params
GetParamSizesResult(v) ==
    Returned("get_param_sizes", -1, "pointer", W(offset_params), W(0), W(0), {},
             FALSE)

\* A faulty variant of get_params_data: the assertion on the first offset is
\* missing.
GetParamsDataResult_Unasserted(variant, v, chk) ==
    IF v.count = Indeterminate
    THEN Returned("get_params_data", -1, "indeterminate", WIndeterminate, W(0),
                  W(0), {}, FALSE)
    ELSE IF v.count = 0
    THEN Returned("get_params_data", -1, "null", W(0), W(0), W(0), {}, FALSE)
    ELSE Returned("get_params_data", -1, "pointer", v.offsets[0], W(0), W(0), {},
                  FALSE)

\* get_params_data(): nullptr for no parameters, else buffer + param_offsets[0];
\* which of the two, a count that was read behind the array does not determine
GetParamsDataResult(variant, v, chk) ==
    IF Asserting(variant, chk) /\ v.count > 0 /\ ~(v.offsets[0] # W(0))
    THEN Violation("get_params_data", -1, "precompute", {})
    ELSE IF v.count = Indeterminate
    THEN Returned("get_params_data", -1, "indeterminate", WIndeterminate, W(0),
                  W(0), {}, FALSE)
    ELSE IF v.count = 0
    THEN Returned("get_params_data", -1, "null", W(0), W(0), W(0), {}, FALSE)
    ELSE Returned("get_params_data", -1, "pointer", v.offsets[0], W(0), W(0), {},
                  FALSE)

\* A faulty variant of an accessor call: the accessor fills the first slot of
\* the offset table on demand (a cache written through a mutable member).
Access_CachesOffset(r, fault) ==
    /\ reads' = r.reads
    /\ undef' = [undef EXCEPT !.last = r.ub]
    /\ IF r.ub /\ fault
       THEN pc' = "fault" /\ ret' = NoRet
       ELSE pc' = pc /\ ret' = r.res
    /\ view' = [view EXCEPT
                   !.offsets[0] = IF view.count > 0
                                  THEN W(offset_params + view.count * SizeofU32)
                                  ELSE @]
    /\ UNCHANGED <<buf, checks, call, err, partial, again>>

\* An accessor call on the live view: its result is kept in ret; undefined
\* behaviour may fault instead. No field of the view is written.
Access(r, fault) ==
    /\ reads' = r.reads
    /\ undef' = [undef EXCEPT !.last = r.ub]
    /\ IF r.ub /\ fault
       THEN pc' = "fault" /\ ret' = NoRet
       ELSE pc' = pc /\ ret' = r.res
    /\ UNCHANGED <<buf, checks, call, view, err, partial, again>>

\* what a call of the accessor op (with index, for the parameter accessor)
\* does on the fields v of a view of buffer b
AccessorCall(variant, b, v, chk, op, index) ==
    CASE op = "get_param" -> GetParamResult(variant, b, v, chk, index)
      [] op = "get_id" -> GetIdResult(variant, v, chk)
      [] op = "get_action" -> GetActionResult(variant, b, v, chk)
      [] op = "get_param_count" -> GetParamCountResult(v)
      [] op = "get_param_sizes" -> GetParamSizesResult(v)
      [] op = "get_params_data" -> GetParamsDataResult(variant, v, chk)

\* The accessors called by the one owner of the view, each call run to its
\* end before the next.
GetParam(index) ==
    /\ pc = "view"
    /\ LET r == GetParamResult(call.variant, buf, view, checks, index)
       IN  \E fault \in Outcomes(r.ub) : Access(r, fault)
    /\ UNCHANGED readers

GetId ==
    /\ pc = "view"
    /\ Access(GetIdResult(call.variant, view, checks), FALSE)
    /\ UNCHANGED readers

GetAction ==
    /\ pc = "view"
    /\ LET r == GetActionResult(call.variant, buf, view, checks)
       IN  \E fault \in Outcomes(r.ub) : Access(r, fault)
    /\ UNCHANGED readers

GetParamCount ==
    /\ pc = "view"
    /\ Access(GetParamCountResult(view), FALSE)
    /\ UNCHANGED readers

GetParamSizes ==
    /\ pc = "view"
    /\ Access(GetParamSizesResult(view), FALSE)
    /\ UNCHANGED readers

GetParamsData ==
    /\ pc = "view"
    /\ Access(GetParamsDataResult(call.variant, view, checks), FALSE)
    /\ UNCHANGED readers

----------------
\* The accessors called by several threads on one view. The classes take no
\* lock, so a call is not one step: a reader enters the accessor, loads the
\* cached count and the buffer size, loads the offset table, and then reads
\* the buffer and returns, and the steps of another reader's call may come
\* between any two of these.

Busy(reader) == readers[reader].stage \in {"called", "counted", "loaded"}

\* a reader enters an accessor of the live view
Invoke(reader, op, index) ==
    /\ pc = "view"
    /\ ~Busy(reader)
    /\ readers' =
          [q \in Readers |->
              IF q = reader
              THEN [stage |-> "called", op |-> op, index |-> index,
                    seen |-> NoView, res |-> NoRet,
                    overlapped |-> \E o \in Readers \ {reader} : Busy(o)]
              ELSE IF Busy(q) THEN [readers[q] EXCEPT !.overlapped = TRUE]
              ELSE readers[q]]
    /\ UNCHANGED <<buf, checks, pc, call, view, err, partial, reads, undef, ret,
                   again>>

\* the reader loads buffer_size_ and cached_param_count_
LoadCount(reader) ==
    /\ pc = "view"
    /\ readers[reader].stage = "called"
    /\ readers' = [readers EXCEPT
                      ![reader].stage = "counted",
                      ![reader].seen = [NoView EXCEPT
                                           !.buffer_size = view.buffer_size,
                                           !.count = view.count]]
    /\ UNCHANGED <<buf, checks, pc, call, view, err, partial, reads, undef, ret,
                   again>>

\* the reader loads param_offsets_
LoadOffsets(reader) ==
    /\ pc = "view"
    /\ readers[reader].stage = "counted"
    /\ readers' = [readers EXCEPT
                      ![reader].stage = "loaded",
                      ![reader].seen.offsets = view.offsets]
    /\ UNCHANGED <<buf, checks, pc, call, view, err, partial, reads, undef, ret,
                   again>>

\* the reader's call ends: with what it loaded it checks its assertions,
\* reads the buffer and returns. A call that faults does not return: the
\* process is killed with the reader still inside the accessor and with no
\* result, and the other readers wherever they are.
Return(reader) ==
    /\ pc = "view"
    /\ readers[reader].stage = "loaded"
    /\ LET c == AccessorCall(call.variant, buf, readers[reader].seen, checks,
                             readers[reader].op, readers[reader].index)
       IN  \E fault \in Outcomes(c.ub) :
            /\ Access(c, fault)
            /\ readers' = IF fault THEN readers
                          ELSE [readers EXCEPT ![reader].stage = "returned",
                                               ![reader].res = c.res]

----------------------------------------------------------------------------
\* The buffers explored. An array of total bytes is laid out as the wire format
\* says for a count c and a tuple of sizes; the buffer is the span of its first
\* len bytes, so that truncated, tight and padded buffers all occur, alone and
\* in front of more of the array.

\* the identifier of the can_be_identified tests
TestId ==
    <<185, 243, 125, 165, 38, 209, 77, 135, 158, 211, 184, 11, 136, 101, 179, 75>>

RECURSIVE Pow256(_)
Pow256(k) == IF k = 0 THEN 1 ELSE 256 * Pow256(k - 1)

\* byte k of the little-endian encoding of v
LE(v, k) == (v \div Pow256(k)) % 256

\* payload byte k: AA BB CC DD EE FF ... as in the reads_params_and_data tests
Fill(k) == (170 + 17 * k) % 256

Min(a, c) == IF a < c THEN a ELSE c

Slots(c) == Min(c, MaxSlots)

\* the size written in slot i: the tuple's entry, its last entry repeated after
SlotSize(szs, i) ==
    IF Len(szs) = 0 THEN W(0)
    ELSE IF i < Len(szs) THEN szs[i + 1] ELSE szs[Len(szs)]

\* byte k of the little-endian encoding of the 32-bit size s
SizeByte(s, k) == IF k = 3 THEN s.hi ELSE LE(s.lo, k)

ImageByte(p, action, c, pad, szs) ==
    IF p < offset_action THEN TestId[p + 1]
    ELSE IF p < offset_param_count THEN LE(action, p - offset_action)
    ELSE IF p < offset_param_count + 2 THEN LE(c, p - offset_param_count)
    ELSE IF p < offset_params THEN pad
    ELSE IF p < offset_params + SizeofU32 * Slots(c)
    THEN SizeByte(SlotSize(szs, (p - offset_params) \div SizeofU32),
                  (p - offset_params) % SizeofU32)
    ELSE Fill(p - (offset_params + SizeofU32 * Slots(c)))

MkBuffer(addr, len, total, action, c, pad, szs) ==
    [addr |-> addr, len |-> len,
     bytes |-> [p \in 1 .. total |-> ImageByte(p - 1, action, c, pad, szs)]]

\* the sum of the first n slot sizes, capped far above every buffer length
RECURSIVE SumSlots(_, _)
SumSlots(szs, n) ==
    IF n = 0 THEN 0
    ELSE LET s == SlotSize(szs, n - 1)
         IN  SumSlots(szs, n - 1) + (IF s.hi > 0 THEN WideBase ELSE s.lo)

\* the length of the tightly packed buffer for c and szs
Natural(c, szs) == offset_params + SizeofU32 * Slots(c) + SumSlots(szs, Slots(c))

\* sizes no buffer can hold: 2^24 and 2^32 - 1
BigSizes ==
    {[top |-> 0, hi |-> 1, lo |-> 0], [top |-> 0, hi |-> 255, lo |-> WideBase - 1]}

SizeTuples(c) ==
    LET k == Min(c, 3)
    IN  [1 .. k -> {W(n) : n \in 0 .. MaxSize}]
          \cup {[f EXCEPT ![j] = big] :
                    f \in [1 .. k -> {W(1)}], j \in 1 .. k, big \in BigSizes}
          \cup (IF k = 3 THEN {<<W(1), W(2), W(3)>>} ELSE {})

LenChoices(c, szs) ==
    LET n == Natural(c, szs)
        h == offset_params + SizeofU32 * Slots(c)
    IN  ({10, 23, offset_params, h - 1, h, n - 1} \cup (n .. (n + MaxExtra)))
            \cap (0 .. MaxLen)

\* buffers that vary the address, the length, the count and the sizes; the
\* span is the whole array
LayoutBuffers ==
    UNION {UNION {{MkBuffer(a, l, l, 1, c, 0, szs) :
                      a \in 0 .. MaxAddr, l \in LenChoices(c, szs)} :
                  szs \in SizeTuples(c)} :
           c \in Counts}

\* aligned, tightly packed buffers that vary the action and the padding
FieldBuffers ==
    {MkBuffer(0, Natural(c, <<W(1), W(2)>>), Natural(c, <<W(1), W(2)>>),
              act, c, pad, <<W(1), W(2)>>) :
        act \in {1, 16909060}, pad \in {0, 255}, c \in {0, 2}}

\* aligned spans over the front of a tightly packed array: the bytes behind
\* the span are those of the rest of the message
EnclosedBuffers ==
    {MkBuffer(0, l, Min(Natural(c, <<W(1), W(2), W(3)>>), MaxLen),
              1, c, 0, <<W(1), W(2), W(3)>>) :
        l \in {10, offset_params}, c \in {3, 9}}

\* aligned header-only buffers whose count field needs both of its bytes
BigCountBuffers ==
    {MkBuffer(0, offset_params, offset_params, 1, c, 0, <<W(1)>>) : c \in BigCounts}

Buffers == LayoutBuffers \cup FieldBuffers \cup EnclosedBuffers \cup BigCountBuffers

----------------------------------------------------------------------------
\* no constructor has been called yet
Fresh ==
    /\ pc = "idle"
    /\ call = NoCall
    /\ view = NoView
    /\ err = NoErr
    /\ partial = ZeroTable
    /\ reads = {}
    /\ undef = NoUB
    /\ ret = NoRet
    /\ again = FALSE
    /\ readers = NoReaders

Start == buf \in Buffers /\ Fresh

\* the default build: BOOST_CONTRACT_NO_CHECKS is not defined
Init == Start /\ checks = TRUE

\* either build
InitBuilds == Start /\ checks \in BOOLEAN

\* the buffers whose views the concurrent readers share: aligned and tightly
\* packed, with no, two and max_params parameters
ReaderBuffers ==
    {MkBuffer(0, Natural(c, <<W(1), W(2)>>), Natural(c, <<W(1), W(2)>>),
              1, c, 0, <<W(1), W(2)>>) : c \in {0, 2, max_params}}

\* the calls a reader makes
ReaderOps ==
    {[op |-> "get_param", index |-> i] : i \in {0, 1, MaxIndex}}
        \cup {[op |-> o, index |-> -1] :
                 o \in {"get_id", "get_action", "get_param_count",
                        "get_param_sizes", "get_params_data"}}

InitReaders == buf \in ReaderBuffers /\ Fresh /\ checks = TRUE

Next ==
    \/ \E variant \in Variants, precompute \in BOOLEAN : Construct(variant, precompute)
    \/ \E index \in 0 .. MaxIndex : GetParam(index)
    \/ GetId
    \/ GetAction
    \/ GetParamCount
    \/ GetParamSizes
    \/ GetParamsData
    \/ Redecode
    \/ Discard

\* one view read by several threads at once
NextReaders ==
    \/ \E variant \in Variants, precompute \in BOOLEAN : Construct(variant, precompute)
    \/ \E reader \in Readers, c \in ReaderOps : Invoke(reader, c.op, c.index)
    \/ \E reader \in Readers : LoadCount(reader)
    \/ \E reader \in Readers : LoadOffsets(reader)
    \/ \E reader \in Readers : Return(reader)

Spec == Init /\ [][Next]_vars

SpecBuilds == InitBuilds /\ [][Next]_vars

SpecReaders == InitReaders /\ [][NextReaders]_vars

----------------------------------------------------------------------------
\* The wire format, read off the buffer as the layout table states it. These
\* definitions are the yardstick the decoder is measured against.

Aligned(b) == b.addr % 4 = 0

\* the 16-bit little-endian field at offset 20 (the buffer has >= 22 bytes)
WireCount(b) == b.bytes[21] + 256 * b.bytes[22]

\* the 32-bit little-endian size in slot i (the slot lies inside the buffer)
WireSize(b, i) ==
    [top |-> 0,
     hi |-> b.bytes[24 + 4 * i + 4],
     lo |-> b.bytes[24 + 4 * i + 1] + 256 * b.bytes[24 + 4 * i + 2]
                + 65536 * b.bytes[24 + 4 * i + 3]]

\* start_0 = 24 + 4 * count, start_(i+1) = start_i + size[i]
RECURSIVE WireStart(_, _)
WireStart(b, i) ==
    IF i = 0 THEN W(24 + 4 * WireCount(b))
    ELSE WAdd(WireStart(b, i - 1), WireSize(b, i - 1))

\* the first header check, in the order alignment, length, count, size array,
\* that the buffer violates
FirstViolated(b) ==
    IF ~Aligned(b) THEN "alignment"
    ELSE IF b.len < 24 THEN "header"
    ELSE IF WireCount(b) > 8 THEN "count"
    ELSE IF b.len < 24 + 4 * WireCount(b) THEN "sizes"
    ELSE "none"

HeaderOK(b) == FirstViolated(b) = "none"

\* payload i ends inside the buffer
Fits(b, i) == WLe(WAdd(WireStart(b, i), WireSize(b, i)), W(b.len))

BadIndices(b) == {i \in 0 .. (WireCount(b) - 1) : ~Fits(b, i)}

Least(S) == CHOOSE x \in S : \A y \in S : x <= y

\* every header invariant and every payload bound holds
WellFormed(b) == HeaderOK(b) /\ BadIndices(b) = {}

\* the last constructor call was made on a validating class
Validating == call.variant \in {"message", "message_data"}

\* the last constructor call has returned or thrown
Decoded == pc \in {"view", "failed"}

\* neither the constructor of the live view nor the last accessor call ran
\* into undefined behaviour: every read was aligned and inside the buffer
Defined == ~undef.ctor /\ ~undef.last

----------------------------------------------------------------------------
\* C1: the validating constructors report the error of the first violated
\* check in the order alignment, length >= 24, parameter_count <= 8, size array
\* fits -- whichever later checks would fail as well.
C1_FirstViolatedCheckReported ==
    (Validating /\ Decoded) =>
        IF HeaderOK(buf)
        THEN err.check \notin {"alignment", "header", "count", "sizes"}
        ELSE pc = "failed" /\ err.check = FirstViolated(buf)

\* C2: with precompute, construction fails at the smallest index whose payload
\* does not fit, before that index's offset is recorded; when it succeeds every
\* recorded offset is the running offset from 24 + 4 * count and
\* offset[i] + size[i] <= buffer.length.
C2_PrecomputeWalk ==
    (Validating /\ Decoded /\ call.precompute /\ HeaderOK(buf)) =>
        IF BadIndices(buf) # {}
        THEN LET i == Least(BadIndices(buf))
             IN  /\ pc = "failed"
                 /\ err = Failure("assertion_failure", "param", i)
                 /\ partial[i] = W(0)
                 /\ \A j \in 0 .. (i - 1) : partial[j] = WireStart(buf, j)
        ELSE /\ pc = "view"
             /\ \A i \in 0 .. (view.count - 1) :
                    /\ view.offsets[i] = WireStart(buf, i)
                    /\ WLe(WAdd(view.offsets[i], WireSize(buf, i)), W(buf.len))

\* C2 witness: a precomputing construction failed at index 1, after the offset
\* of index 0 was recorded.
C2_Witness ==
    /\ Validating /\ call.precompute /\ pc = "failed"
    /\ err.check = "param" /\ err.index = 1
    /\ partial[0] # W(0)

\* a get_param / get_parameter call on the live view has returned to the caller
ParamCalled == pc = "view" /\ ret.op = "get_param"

\* the returned span [start, start + len) lies inside the buffer
InsideBuffer(r) == WLe(WAdd(r.start, r.len), W(buf.len))

\* C3, as claimed: every range a parameter accessor of any constructed view
\* returns lies inside the buffer (stated for executions free of undefined
\* behaviour, where the decoder's own reads stayed inside the buffer).
C3_EveryRangeInsideBuffer ==
    (ParamCalled /\ ret.kind = "range" /\ Defined) => InsideBuffer(ret)

\* C3, amended: every range returned by get_param / get_parameter of a view of a
\* validating class (message, message_data with its contract checks) lies
\* inside the buffer, for any index and either precompute flag.
C3_ValidatedRangeInsideBuffer ==
    (Validating /\ ParamCalled /\ ret.kind = "range") => InsideBuffer(ret)

\* C3 witness: a validating view returned a non-empty range that ends exactly
\* at the end of the buffer.
C3_Witness ==
    /\ Validating /\ ParamCalled /\ ret.kind = "range"
    /\ ret.len # W(0)
    /\ WAdd(ret.start, ret.len) = W(buf.len)

\* a view built without precomputation was asked for one of its parameters
UnprecomputedParam ==
    ParamCalled /\ ~call.precompute /\ ret.index < view.count

\* the call was rejected for the missing offset, nothing read, nothing returned
RejectedForPrecompute ==
    ret.kind = "violation" /\ ret.check = "precompute" /\ reads = {}

\* C4, as claimed: on any view constructed with precompute = false,
\* parameter(i) for i < parameter_count is rejected and returns no range
\* (stated for executions free of undefined behaviour).
C4_UnprecomputedRejected ==
    (UnprecomputedParam /\ Defined) => RejectedForPrecompute

\* C4, amended: on a view of a validating class (message, message_data with
\* its contract checks) constructed with precompute = false, parameter(i) for
\* i < parameter_count is rejected by the offset assertion: no size is read,
\* no range returned.
C4_ValidatedUnprecomputedRejected ==
    (Validating /\ UnprecomputedParam) => RejectedForPrecompute

\* C4 witness: message built without precomputation, parameter 0 of several
\* requested and rejected.
C4_Witness ==
    /\ call = [variant |-> "message", precompute |-> FALSE]
    /\ UnprecomputedParam /\ view.count > 1 /\ ret.kind = "violation"

\* C5: on a precomputed view of a validating class, parameter(i) with
\* i >= parameter_count (i >= 8 included) is rejected by the index assertion
\* before the offset table or the size array is read; no range is returned.
C5_IndexOutOfRangeRejected ==
    (Validating /\ ParamCalled /\ call.precompute /\ ret.index >= view.count) =>
        (ret.kind = "violation" /\ ret.check = "index" /\ reads = {})

\* C5 witness: a precomputed view with parameters was asked for index >= 8.
C5_Witness ==
    /\ Validating /\ ParamCalled /\ call.precompute
    /\ view.count > 0 /\ ret.index >= max_params
    /\ ret.kind = "violation"

\* the header invariants of the data model, on the live view
HeaderInvariants ==
    /\ Aligned(buf)
    /\ buf.len >= 24
    /\ view.count <= 8
    /\ buf.len >= 24 + 4 * view.count

\* C6, as claimed: every constructed view, of any class, satisfies the header
\* invariants (stated for constructions free of undefined behaviour).
C6_EveryViewHeaderInvariants == (pc = "view" /\ ~undef.ctor) => HeaderInvariants

\* C6, amended: every view constructed by a validating class (message,
\* message_data with its contract checks) satisfies the header invariants, and
\* its cached count is the count field of the buffer.
C6_ValidatedViewHeaderInvariants ==
    (Validating /\ pc = "view") =>
        (HeaderInvariants /\ view.count = WireCount(buf))

\* C6 witness: a validating view with the maximum of 8 parameters.
C6_Witness == Validating /\ pc = "view" /\ view.count = max_params

\* C7: an aligned buffer of >= 24 bytes with parameter_count > 8 fails with the
\* too-many-parameters error, before the size-array check and with nothing but
\* the count field read.
C7_TooManyParametersFirst ==
    (Validating /\ Decoded /\ Aligned(buf) /\ buf.len >= 24
        /\ WireCount(buf) > 8) =>
        (pc = "failed" /\ err.check = "count" /\ reads \subseteq {20, 21})

\* C8, as claimed: an unaligned buffer fails with the typed alignment_error,
\* nothing read.
C8_AlignmentErrorTyped ==
    (Validating /\ Decoded /\ ~Aligned(buf)) =>
        (pc = "failed" /\ err.type = "alignment_error" /\ reads = {})

\* C8, amended: an unaligned buffer fails on the alignment check before its
\* length is checked and before any byte is read; message throws the typed
\* alignment_error, message_data a contract assertion failure.
C8_AlignmentCheckedFirst ==
    (Validating /\ Decoded /\ ~Aligned(buf)) =>
        /\ pc = "failed"
        /\ err.check = "alignment"
        /\ reads = {}
        /\ err.type = IF call.variant = "message" THEN "alignment_error"
                      ELSE "assertion_failure"

\* C8 witness: message rejected an unaligned buffer too short for a header.
C8_Witness ==
    /\ call.variant = "message" /\ pc = "failed"
    /\ ~Aligned(buf) /\ buf.len < 24 /\ err.type = "alignment_error"

\* C9: an aligned buffer of fewer than 24 bytes fails with the header
\* truncation error without the count being read; an aligned buffer of exactly
\* 24 bytes with parameter_count = 0 decodes, with either precompute flag.
C9_HeaderLengthBoundary ==
    (Validating /\ Decoded /\ Aligned(buf)) =>
        /\ (buf.len < 24) =>
               (pc = "failed" /\ err.check = "header" /\ reads = {})
        /\ (buf.len = 24 /\ WireCount(buf) = 0) =>
               (pc = "view" /\ view.count = 0)

\* C9 witness: an aligned 23-byte buffer was rejected.
C9_Witness ==
    Validating /\ pc = "failed" /\ Aligned(buf) /\ buf.len = 23

\* the bytes of the buffer the span r designates
RangeBytes(b, r) == [k \in 1 .. r.len.lo |-> b.bytes[r.start.lo + k]]

\* the buffer of the reads_params_and_data tests: sizes 1, 2, 3, 42 bytes
IsRoundTripBuffer(b) ==
    /\ Aligned(b) /\ b.len = 42 /\ WireCount(b) = 3
    /\ \A i \in 0 .. 2 : WireSize(b, i) = W(i + 1)

RoundTripParams == <<<<170>>, <<187, 204>>, <<221, 238, 255>>>>

\* C10: on a precomputed view of a well-formed buffer, of any class,
\* parameter(i) for i < parameter_count is the range
\* [start_i, start_i + size[i]) with start_0 = 24 + 4 * count and
\* start_(i+1) = start_i + size[i]; sizes 1, 2, 3 over AA BB CC DD EE FF give
\* AA / BB CC / DD EE FF.
C10_ParametersBackToBack ==
    (ParamCalled /\ call.precompute /\ WellFormed(buf)
        /\ ret.index < WireCount(buf)) =>
        /\ ret.kind = "range"
        /\ ret.start = WireStart(buf, ret.index)
        /\ ret.len = WireSize(buf, ret.index)
        /\ IsRoundTripBuffer(buf) =>
               RangeBytes(buf, ret) = RoundTripParams[ret.index + 1]

\* C10 witness: the last parameter of the round-trip buffer was returned.
C10_Witness ==
    /\ ParamCalled /\ call.precompute /\ IsRoundTripBuffer(buf)
    /\ ret.index = 2 /\ ret.kind = "range"

\* a get_params_data call on the live view has come back to the caller
ParamsDataCalled == pc = "view" /\ ret.op = "get_params_data"

\* C11: on a view of a validating class, parameters_start() returns "none"
\* exactly when parameter_count = 0, with either precompute flag; with
\* parameters and precomputed offsets it returns the position
\* 24 + 4 * parameter_count, which is offset[0]; with parameters and no
\* precomputed offsets the call is rejected as a contract violation.
C11_ParametersStart ==
    (Validating /\ ParamsDataCalled) =>
        /\ (ret.kind = "null") <=> (WireCount(buf) = 0)
        /\ (WireCount(buf) > 0 /\ call.precompute) =>
               /\ ret.kind = "pointer"
               /\ ret.start = W(24 + 4 * WireCount(buf))
               /\ ret.start = view.offsets[0]
        /\ (WireCount(buf) > 0 /\ ~call.precompute) =>
               (ret.kind = "violation" /\ ret.check = "precompute")

\* C11 witness: a precomputed view with several parameters returned the start
\* of its payload.
C11_Witness ==
    /\ Validating /\ ParamsDataCalled /\ call.precompute
    /\ view.count > 1 /\ ret.kind = "pointer"

\* the checks the construction mode requires: the header checks, and with
\* precompute the bounds of every payload
PassesRequiredChecks ==
    HeaderOK(buf) /\ (call.precompute => BadIndices(buf) = {})

\* the offset table of the live view is complete for its mode: with precompute
\* every slot below the count holds its payload's start, every other slot 0
TableComplete ==
    \A i \in 0 .. (max_params - 1) :
        view.offsets[i] =
            IF call.precompute /\ i < view.count THEN WireStart(buf, i) ELSE W(0)

\* C12: construction by a validating class is all-or-nothing. When any check
\* fails -- the payload check at an index i > 0 included, after earlier offsets
\* were written -- construction fails and the caller gets no view; every view
\* the caller gets has passed every check its mode requires and has a complete
\* offset table.
C12_AllOrNothing ==
    (Validating /\ Decoded) =>
        /\ ~PassesRequiredChecks => (pc = "failed" /\ view = NoView)
        /\ (pc = "failed") => (view = NoView /\ err # NoErr)
        /\ (pc = "view") =>
               (PassesRequiredChecks /\ err = NoErr /\ TableComplete)

\* C12 witness: the payload check failed at index 2 after the offsets of
\* indices 0 and 1 were written, and no view exists.
C12_Witness ==
    /\ Validating /\ pc = "failed" /\ err.check = "param" /\ err.index = 2
    /\ partial[0] # W(0) /\ partial[1] # W(0)
    /\ view = NoView

\* C13: on every 4-byte-aligned buffer of at least 24 bytes,
\* message(buffer, false) is constructed and get_param_count() returns the
\* 16-bit value at offset 20 -- the 24-byte buffer of the test, whose count
\* field is 3, included.
C13_CountOfAnyAlignedHeader ==
    (call = [variant |-> "message", precompute |-> FALSE] /\ Decoded
        /\ Aligned(buf) /\ buf.len >= 24) =>
        /\ pc = "view"
        /\ view.count = WireCount(buf)
        /\ (ret.op = "get_param_count") => ret.value = W(WireCount(buf))

\* the 16 identifier bytes and the 32-bit little-endian action of the layout
\* table (the buffer has >= 20 bytes)
WireId(b) == [k \in 1 .. 16 |-> b.bytes[k]]
WireAction(b) ==
    [top |-> 0,
     hi |-> b.bytes[20],
     lo |-> b.bytes[17] + 256 * b.bytes[18] + 65536 * b.bytes[19]]

\* C14: on every constructed view, of any class and with either precompute
\* flag, identifier() is exactly bytes 0..15 of the buffer and action() is the
\* unsigned 32-bit little-endian value of bytes 16..19, reading no other byte:
\* neither depends on the count, the size array or the payload (stated for
\* executions free of undefined behaviour).
C14_IdentifierAndAction ==
    (pc = "view" /\ Defined) =>
        /\ (ret.op = "get_id") =>
               /\ ret.kind = "range"
               /\ ret.start = W(0) /\ ret.len = W(16)
               /\ InsideBuffer(ret)
               /\ RangeBytes(buf, ret) = WireId(buf)
               /\ reads = {}
        /\ (ret.op = "get_action") =>
               /\ ret.kind = "value"
               /\ ret.value = WireAction(buf)
               /\ reads = 16 .. 19

\* C14 witness: action() returned 0x01020304 on a view with two parameters.
C14_Witness ==
    /\ pc = "view" /\ Defined /\ ret.op = "get_action"
    /\ view.count = 2 /\ ret.value = W(16909060)

----------------------------------------------------------------------------
\* Decoding a second buffer, for the claims that compare two buffers.

\* the view the constructor outcome r leaves over buffer b
ViewOf(b, r) == [buffer_size |-> b.len, count |-> r.count, offsets |-> r.offsets]

\* what the accessor op (with index, for the parameter accessor) returns on
\* view v of buffer b
AccessorResult(variant, b, v, chk, op, index) ==
    CASE op = "get_param" -> GetParamResult(variant, b, v, chk, index).res
      [] op = "get_id" -> GetIdResult(variant, v, chk).res
      [] op = "get_action" -> GetActionResult(variant, b, v, chk).res
      [] op = "get_param_count" -> GetParamCountResult(v).res
      [] op = "get_param_sizes" -> GetParamSizesResult(v).res
      [] op = "get_params_data" -> GetParamsDataResult(variant, v, chk).res

\* the position after the last payload: 24 + 4 * count + the sum of the sizes
WireEnd(b) == WireStart(b, WireCount(b))

\* the buffer without the bytes after its last payload
Trim(b) ==
    [b EXCEPT !.len = WireEnd(b).lo, !.bytes = SubSeq(b.bytes, 1, WireEnd(b).lo)]

\* C15: a validating class decodes a well-formed buffer with precompute,
\* trailing bytes or not; on the view, 24 + 4 * count + the sum of the sizes is
\* <= buffer.length, with equality exactly when nothing follows the last
\* payload; the buffer cut after its last payload decodes to the same count
\* and offsets, and every accessor returns on it what it returned here.
C15_TrailingBytesIgnored ==
    (Validating /\ call.precompute /\ Decoded) =>
        /\ WellFormed(buf) => pc = "view"
        /\ (pc = "view") =>
               LET t == Trim(buf)
                   r == Ctor(call.variant, t, TRUE, checks)
               IN  /\ WLe(WireEnd(buf), W(buf.len))
                   /\ (WireEnd(buf) = W(buf.len)) <=> (t = buf)
                   /\ r.err = NoErr
                   /\ r.count = view.count /\ r.offsets = view.offsets
                   /\ (ret.op # "none") =>
                          ret = AccessorResult(call.variant, t, ViewOf(t, r),
                                               checks, ret.op, ret.index)

\* C15 witness: the last of several parameters was returned from a buffer
\* that has a byte after its last payload.
C15_Witness ==
    /\ Validating /\ call.precompute /\ ParamCalled /\ ret.kind = "range"
    /\ view.count > 1 /\ ret.index = view.count - 1 /\ ret.len # W(0)
    /\ WAdd(ret.start, ret.len) # W(buf.len)

\* every slot of an offset table holds a value the program determined
DeterminateTable(t) == \A i \in DOMAIN t : t[i] # WIndeterminate

\* C16: decoding by a validating class is deterministic and leaves the buffer
\* alone. No construction by such a class and no accessor of its view changes
\* a byte of the buffer or leaves the defined executions; decoding the same
\* buffer again with the same class and flag ends as the first decoding did
\* (the same error, or a view with the same count and the same, determined
\* offsets); and an accessor asked again, on the same or on the second view,
\* returns what it returned before.
C16_DeterministicReadOnly ==
    [][/\ Validating' => (buf' = buf /\ pc' # "undefined")
       /\ (Validating /\ Decoded /\ Decoded' /\ call' = call) =>
              /\ pc' = pc /\ err' = err /\ view' = view
              /\ DeterminateTable(view'.offsets)
       /\ (Validating /\ pc = "view" /\ pc' = "view" /\ ret.op # "none"
              /\ ret'.op = ret.op /\ ret'.index = ret.index) =>
              ret' = ret]_vars

\* C16 witness: a buffer with parameters was decoded a second time after a
\* parameter had been returned from the first view.
C16_Witness ==
    /\ Validating /\ call.precompute /\ pc = "view" /\ view.count > 1
    /\ ret.op = "get_param" /\ ret.kind = "range" /\ ret.len # W(0)
    /\ again

\* the view as its constructor left it, before any accessor was called
FreshView == ViewOf(buf, Ctor(call.variant, buf, call.precompute, checks))

\* what the call op (with index) returns when it is the only call ever made
\* on the view
Alone(op, index) ==
    AccessorResult(call.variant, buf, FreshView, checks, op, index)

C18_ChecksInEveryBuild ==
    (Validating /\ pc = "view" /\ ~undef.ctor) => PassesRequiredChecks

\* C19, as claimed: in every construction that reaches the precomputation
\* loop, of any class, the loop runs with parameter_count <= 8, so no store
\* goes outside the 8-slot table (stated for constructions whose reads up to
\* that store were all defined).
C19_LoopWithinTable ==
    (call.precompute /\ ~undef.ctor) => pc # "undefined"

\* the offset table of an object abandoned before its loop ran: value-
\* initialised in message, not yet initialised in message_data
Unwritten(variant) == IF variant = "message" THEN ZeroTable ELSE RawTable

\* C19, amended: in every construction by a validating class (message,
\* message_data with its contract checks) that reaches the precomputation
\* loop, parameter_count <= 8: a count above 8 fails a header check before the
\* loop with no slot written, the loop's own failure is at an index below 8,
\* no store goes outside the table, and the slots from the count on stay 0.
C19_ValidatedLoopWithinTable ==
    (Validating /\ call.precompute /\ pc # "idle") =>
        /\ Decoded
        /\ ~undef.ctor
        /\ (Aligned(buf) /\ buf.len >= 24 /\ WireCount(buf) > max_params) =>
               /\ pc = "failed"
               /\ err.check \in {"count", "sizes"}
               /\ partial = Unwritten(call.variant)
        /\ (pc = "failed" /\ err.check = "param") => err.index < max_params
        /\ (pc = "view") =>
               /\ view.count <= max_params
               /\ \A i \in view.count .. (max_params - 1) :
                      view.offsets[i] = W(0)

\* C19 witness: a validating constructor filled all 8 slots of the table.
C19_Witness ==
    /\ Validating /\ call.precompute /\ pc = "view"
    /\ view.count = max_params /\ view.offsets[max_params - 1] # W(0)

\* the buffer with other values in its padding bytes, offsets 22 and 23
Repad(b) ==
    [b EXCEPT !.bytes = [k \in 1 .. Len(b.bytes) |->
                            IF k \in {23, 24} THEN 255 - b.bytes[k]
                            ELSE b.bytes[k]]]

\* C20: a validating class never reads the padding at offsets 22 and 23. No
\* operation reads either byte, and the buffer that differs only in these two
\* bytes decodes to the same outcome -- the same error, or a view with the same
\* count and offsets on which every accessor returns what it returned here.
C20_PaddingUnread ==
    (Validating /\ Decoded) =>
        LET q == Repad(buf)
            r == Ctor(call.variant, q, call.precompute, checks)
        IN  /\ reads \cap {22, 23} = {}
            /\ (pc = "failed") => r.err = err
            /\ (pc = "view") =>
                   /\ r.err = NoErr
                   /\ ViewOf(q, r) = view
                   /\ (ret.op # "none") =>
                          ret = AccessorResult(call.variant, q, ViewOf(q, r),
                                               checks, ret.op, ret.index)

\* C20 witness: a parameter was returned from a view over a buffer whose
\* padding bytes are not zero.
C20_Witness ==
    /\ Validating /\ ParamCalled /\ ret.kind = "range" /\ ret.len # W(0)
    /\ buf.bytes[23] = 255 /\ buf.bytes[24] = 255

\* C21: on a view of a validating class, the non-zero test on the offset table
\* marks precomputation exactly: for every index i < parameter_count,
\* param_offsets[i] # 0 if and only if the view was constructed with
\* precompute = true; a precomputed offset is >= 24 + 4 * parameter_count, and
\* without precompute the zero-initialised table is never written.
C21_NonZeroMarksPrecompute ==
    (Validating /\ pc = "view") =>
        /\ \A i \in 0 .. (view.count - 1) :
               /\ (view.offsets[i] # W(0)) <=> call.precompute
               /\ call.precompute =>
                      WLe(W(24 + 4 * view.count), view.offsets[i])
        /\ ~call.precompute => view.offsets = ZeroTable

\* C21 witness: a precomputed view with 8 parameters of which the first is
\* empty, so that two slots hold the same non-zero offset.
C21_Witness ==
    /\ Validating /\ pc = "view" /\ call.precompute /\ view.count = max_params
    /\ view.offsets[0] # W(0) /\ view.offsets[1] = view.offsets[0]

\* the class the live view is compared with: message for request and back
Counterpart == IF call.variant = "request" THEN "message" ELSE "request"

\* C22: request and message agree on every valid input. On a 4-byte-aligned
\* buffer with length >= 24, parameter_count <= 8, a fitting size array and
\* every payload inside the buffer, decoded with precompute = true, the other
\* of the two classes constructs a view with the same count and offsets, and
\* get_id, get_action, get_param_count, get_param_sizes, get_param(i) for
\* i < parameter_count and get_params_data return on it what they returned
\* here.
C22_RequestAgreesWithMessage ==
    (call.variant \in {"request", "message"} /\ call.precompute
        /\ pc = "view" /\ WellFormed(buf)) =>
        LET r == Ctor(Counterpart, buf, TRUE, checks)
        IN  /\ ~undef.ctor
            /\ r.err = NoErr /\ ~r.ub
            /\ ViewOf(buf, r) = view
            /\ (ret.op # "none"
                   /\ (ret.op = "get_param" => ret.index < WireCount(buf))) =>
                   /\ ~undef.last
                   /\ ret = AccessorResult(Counterpart, buf, ViewOf(buf, r),
                                           checks, ret.op, ret.index)

\* C22 witness: request returned the last parameter (DD EE FF) of the
\* round-trip buffer.
C22_Witness ==
    /\ call = [variant |-> "request", precompute |-> TRUE]
    /\ ParamCalled /\ IsRoundTripBuffer(buf)
    /\ ret.index = 2 /\ ret.kind = "range"
    /\ RangeBytes(buf, ret) = <<221, 238, 255>>

====
